---------------------------- MODULE Spec2Model ----------------------------
(***************************************************************************)
(* assdumper: extraction of ARIB closed-caption events from an MPEG2-TS    *)
(* file (src/assdumper/assdumper.go).                                      *)
(*                                                                         *)
(* The analyzer is single threaded: main reads one 188-byte packet at a    *)
(* time into buf and hands it to analyzePacket, which updates the          *)
(* AnalyzerState and may print to stdout and stderr.                       *)
(*                                                                         *)
(* A packet is held as its decoded bit fields, under the names the source  *)
(* gives them.  The byte ranges that the PAT, PMT, TOT and caption decoders*)
(* read from one payload are kept as separate fields of the payload.       *)
(* A string is the sequence of its code points.                            *)
(***************************************************************************)
EXTENDS Integers, Sequences, FiniteSets, TLC

VARIABLES
    pmtPids,            \* state.pmtPids           (set of PIDs; nil = {})
    pcrPid,             \* state.pcrPid
    captionPid,         \* state.captionPid
    currentTimestamp,   \* state.currentTimestamp  (27 MHz ticks)
    clockOffset,        \* state.clockOffset       (centitime)
    previousSubtitle,   \* state.previousSubtitle
    previousIsBlank,    \* state.previousIsBlank
    previousTimestamp,  \* state.previousTimestamp
    preludePrinted,     \* state.preludePrinted
    buf,                \* main: the packet read last
    nread,              \* main: number of packets read from fin
    fin,                \* main: the packets of the input file, when it is fixed
    pc,                 \* "read", "dumpCaption", "panic", "done"
    units,              \* dumpCaption: data units of the loop still to visit
    shown,              \* number of data units with parameter 0x20 visited
    stdout,             \* lines printed to os.Stdout
    stderr              \* lines printed to os.Stderr

state == <<pmtPids, pcrPid, captionPid, currentTimestamp, clockOffset,
           previousSubtitle, previousIsBlank, previousTimestamp,
           preludePrinted>>

vars == <<pmtPids, pcrPid, captionPid, currentTimestamp, clockOffset,
          previousSubtitle, previousIsBlank, previousTimestamp,
          preludePrinted, buf, nread, fin, pc, units, shown, stdout, stderr>>

-----------------------------------------------------------------------------
(* Bounds of the exploration *)

MaxPackets == 5

(* Constants of the program *)

SYNC_BYTE == 71

PAT_PID == 0

TOT_PID == 20

PAT_TABLE_ID == 0

PMT_TABLE_ID == 2

TOT_TABLE_ID == 115

STREAM_TYPE_PES == 6

STREAM_IDENTIFIER_TAG == 82

CAPTION_COMPONENT_TAG == 135

STATEMENT_BODY == 32

SPACE == 32

K == 27000000

-----------------------------------------------------------------------------
(* Bit operations on naturals *)

RECURSIVE BitAnd(_, _)
BitAnd(a, b) ==
    IF a = 0 \/ b = 0 THEN 0
    ELSE (IF a % 2 = 1 /\ b % 2 = 1 THEN 1 ELSE 0) + 2 * BitAnd(a \div 2, b \div 2)

RECURSIVE BitOr(_, _)
BitOr(a, b) ==
    IF a = 0 THEN b
    ELSE IF b = 0 THEN a
    ELSE (IF a % 2 = 1 \/ b % 2 = 1 THEN 1 ELSE 0) + 2 * BitOr(a \div 2, b \div 2)

RECURSIVE Shl(_, _)
Shl(a, n) == IF n = 0 THEN a ELSE Shl(2 * a, n - 1)

RECURSIVE Shr(_, _)
Shr(a, n) == IF n = 0 THEN a ELSE Shr(a \div 2, n - 1)

(* Go's integer division truncates toward zero *)
Quo(a, b) == IF a >= 0 THEN a \div b ELSE -((-a) \div b)

-----------------------------------------------------------------------------
(* The bit-field table decoders *)

(* SystemClock.centitime *)
centitime(clock) == Quo(clock, Quo(K, 100))

(* a variant of isBlank that takes the empty string for not blank *)
isBlankNonEmpty(str) == Len(str) > 0 /\ \A i \in 1..Len(str) : str[i] = SPACE

(* isBlank: no code point of str differs from ' ' (true of the empty string) *)
isBlank(str) == \A i \in 1..Len(str) : str[i] = SPACE

(* decodeBcd *)
decodeBcd(n) == Shr(n, 4) * 10 + BitAnd(n, 15)

(* extractPcr: payload[1..6] are the six PCR bytes after the flags byte *)
extractPcr(payload) ==
    LET pcr_base == BitOr(BitOr(BitOr(BitOr(Shl(payload[1], 25),
                                            Shl(payload[2], 17)),
                                      Shl(payload[3], 9)),
                                Shl(payload[4], 1)),
                          Shr(BitAnd(payload[5], 128), 7))
        pcr_ext == BitOr(BitAnd(payload[5], 1), payload[6])
    IN  pcr_base * 300 + pcr_ext

(* extractPmtPids: the program_map_PIDs of the entries whose program_number
   is not 0, or the empty map when table_id is not 0x00 *)
extractPmtPids(payload) ==
    IF payload.table_id # PAT_TABLE_ID THEN {}
    ELSE { payload.programs[i].program_map_PID :
             i \in { j \in 1..Len(payload.programs) :
                       payload.programs[j].program_number # 0 } }

(* extractPcrPid *)
extractPcrPid(payload) == payload.PCR_PID

(* the descriptor loop of one elementary stream entry *)
hasCaptionDescriptor(descriptors) ==
    \E i \in 1..Len(descriptors) :
        /\ descriptors[i].descriptor_tag = STREAM_IDENTIFIER_TAG
        /\ descriptors[i].component_tag = CAPTION_COMPONENT_TAG

(* the elementary stream loop: the first entry of stream_type 0x06 that
   carries the caption component tag *)
RECURSIVE findCaptionStream(_)
findCaptionStream(streams) ==
    IF streams = <<>> THEN -1
    ELSE IF /\ Head(streams).stream_type = STREAM_TYPE_PES
            /\ hasCaptionDescriptor(Head(streams).descriptors)
         THEN Head(streams).elementary_PID
         ELSE findCaptionStream(Tail(streams))

(* a variant of extractCaptionPid that does not look at table_id *)
extractCaptionPidAnyTable(payload) ==
    IF ~payload.section_fits THEN -1
    ELSE findCaptionStream(payload.streams)

(* extractCaptionPid *)
extractCaptionPid(payload) ==
    IF payload.table_id # PMT_TABLE_ID THEN -1
    ELSE IF ~payload.section_fits THEN -1
    ELSE findCaptionStream(payload.streams)

(* [B10] Appendix C: year, month, day of a Modified Julian Date, with the
   float64 arithmetic of the source carried out on scaled integers *)
mjdDate(MJD) ==
    LET y  == Quo(MJD * 100 - 1507820, 36525)
        yd == Quo(y * 36525, 100)
        m  == Quo((MJD - 14956 - yd) * 10000 - 1000, 306001)
        k  == IF m = 14 \/ m = 15 THEN 1 ELSE 0
    IN  [year  |-> y + k + 1900,
         month |-> m - 2 - k * 12,
         day   |-> MJD - 14956 - yd - Quo(m * 306001, 10000)]

isLeap(year) == (year % 4 = 0 /\ year % 100 # 0) \/ year % 400 = 0

daysIn(year, month) ==
    IF month = 2 THEN (IF isLeap(year) THEN 29 ELSE 28)
    ELSE IF month \in {4, 6, 9, 11} THEN 30 ELSE 31

(* days from 1970-01-01 to the civil date *)
daysFromCivil(year, month, day) ==
    LET y   == IF month <= 2 THEN year - 1 ELSE year
        era == y \div 400
        yoe == y - era * 400
        mp  == IF month > 2 THEN month - 3 ELSE month + 9
        doy == (153 * mp + 2) \div 5 + day - 1
        doe == yoe * 365 + yoe \div 4 - yoe \div 100 + doy
    IN  era * 146097 + doe - 719468

(* time.Parse(time.RFC3339, str) returns no error *)
jstTimeParses(payload) ==
    LET d == mjdDate(payload.MJD)
    IN  \/ payload.table_id # TOT_TABLE_ID
        \/ /\ d.year \in 0..9999
           /\ d.month \in 1..12
           /\ d.day \in 1..daysIn(d.year, d.month)
           /\ decodeBcd(payload.hour) \in 0..23
           /\ decodeBcd(payload.minute) \in 0..59
           /\ decodeBcd(payload.second) \in 0..59

(* extractJstTime: Unix seconds of the JST (+09:00) date and time, or 0 when
   the payload does not open with 0x73 *)
extractJstTime(payload) ==
    IF payload.table_id # TOT_TABLE_ID THEN 0
    ELSE LET d == mjdDate(payload.MJD)
         IN  daysFromCivil(d.year, d.month, d.day) * 86400
               + decodeBcd(payload.hour) * 3600
               + decodeBcd(payload.minute) * 60
               + decodeBcd(payload.second)
               - 9 * 3600

(* decodeCprofile: the caption-text decoder; q.text is the string it yields
   for the data unit q *)
decodeCprofile(q) == q.text

-----------------------------------------------------------------------------
(* The packets of the input file *)

NoAdaptation == [present |-> FALSE, pcr_flag |-> FALSE, pcr |-> <<0, 0, 0, 0, 0, 0>>]

PcrField(flag, bytes) == [present |-> TRUE, pcr_flag |-> flag, pcr |-> bytes]

EmptyPayload ==
    [present |-> TRUE, table_id |-> 0, section_fits |-> TRUE, programs |-> <<>>,
     PCR_PID |-> 0, streams |-> <<>>,
     MJD |-> 0, hour |-> 0, minute |-> 0, second |-> 0,
     units |-> <<>>]

NoPayload == [EmptyPayload EXCEPT !.present = FALSE]

Packet(sync, pusi, pid, adaptation, payload) ==
    [sync_byte |-> sync, payload_unit_start_indicator |-> pusi, pid |-> pid,
     adaptation |-> adaptation, payload |-> payload]

(* buf before the first read: make([]byte, TS_PACKET_SIZE) *)
ZeroPacket == Packet(0, FALSE, 0, NoAdaptation, NoPayload)

PatPayload(id, programs) ==
    [EmptyPayload EXCEPT !.table_id = id, !.programs = programs]

PmtPayload(id, fits, pcr, streams) ==
    [EmptyPayload EXCEPT !.table_id = id, !.section_fits = fits,
                         !.PCR_PID = pcr, !.streams = streams]

TotPayload(id, mjd, h, m, s) ==
    [EmptyPayload EXCEPT !.table_id = id, !.MJD = mjd,
                         !.hour = h, !.minute = m, !.second = s]

CaptionPayload(us) == [EmptyPayload EXCEPT !.units = us]

Program(number, pid) == [program_number |-> number, program_map_PID |-> pid]

Stream(type, pid, tag, component) ==
    [stream_type |-> type, elementary_PID |-> pid,
     descriptors |-> <<[descriptor_tag |-> tag, component_tag |-> component]>>]

DataUnit(parameter, text) == [data_unit_parameter |-> parameter, text |-> text]

(* "dummy", the string the decodeCprofile of the source returns *)
Dummy == <<100, 117, 109, 109, 121>>

(* the strings the caption-text decoder yields here: "", " " and "dummy" *)
CaptionTexts == { <<>>, <<SPACE>>, Dummy }

(* data units with parameter 0x20, and one with another parameter *)
DataUnits == { DataUnit(STATEMENT_BODY, t) : t \in CaptionTexts }

OtherDataUnit == DataUnit(48, Dummy)

(* the data unit loops of the caption payloads: no unit, one unit, two units *)
DataUnitLoops ==
    { <<>>, <<OtherDataUnit>> }
    \cup { <<u>> : u \in DataUnits }
    \cup { <<u, v>> : u \in DataUnits, v \in DataUnits }
    \cup { <<OtherDataUnit, DataUnit(STATEMENT_BODY, Dummy)>>,
           <<DataUnit(STATEMENT_BODY, Dummy), OtherDataUnit>> }

PatPackets ==
    { Packet(SYNC_BYTE, TRUE, PAT_PID, NoAdaptation, PatPayload(id, ps)) :
        id \in {PAT_TABLE_ID, 1}, ps \in { <<Program(0, 16), Program(1, 256), Program(2, 258)>> } }
    \cup { Packet(SYNC_BYTE, TRUE, PAT_PID, NoAdaptation,
                  PatPayload(PAT_TABLE_ID, <<Program(1, 256)>>)) }

CaptionStreams == <<Stream(2, 273, 82, 0), Stream(STREAM_TYPE_PES, 512, 82, 135)>>

OtherCaptionStreams == <<Stream(STREAM_TYPE_PES, 513, 82, 135)>>

NoCaptionStreams == <<Stream(2, 273, 82, 0), Stream(STREAM_TYPE_PES, 512, 82, 48)>>

PmtPackets ==
    { Packet(SYNC_BYTE, TRUE, 256, NoAdaptation, pl) :
        pl \in { PmtPayload(PMT_TABLE_ID, TRUE, 257, CaptionStreams),
                 PmtPayload(PMT_TABLE_ID, TRUE, 257, NoCaptionStreams),
                 PmtPayload(PMT_TABLE_ID, FALSE, 257, CaptionStreams),
                 PmtPayload(0, TRUE, 257, CaptionStreams) } }
    \cup { Packet(SYNC_BYTE, FALSE, 256, NoAdaptation,
                  PmtPayload(PMT_TABLE_ID, TRUE, 257, CaptionStreams)),
           Packet(SYNC_BYTE, TRUE, 258, NoAdaptation,
                  PmtPayload(PMT_TABLE_ID, TRUE, 259, OtherCaptionStreams)) }

PcrBytes == { <<0, 0, 0, 0, 0, 0>>, <<0, 1, 0, 0, 0, 0>>, <<0, 2, 0, 0, 1, 2>> }

PcrPackets ==
    { Packet(SYNC_BYTE, FALSE, 257, PcrField(TRUE, b), NoPayload) : b \in PcrBytes }
    \cup { Packet(SYNC_BYTE, FALSE, 259, PcrField(TRUE, <<0, 1, 0, 0, 0, 0>>), NoPayload),
           Packet(SYNC_BYTE, FALSE, 257, PcrField(FALSE, <<0, 2, 0, 0, 0, 0>>), NoPayload) }

TotPackets ==
    { Packet(SYNC_BYTE, TRUE, TOT_PID, NoAdaptation, TotPayload(TOT_TABLE_ID, 40618, 9, 0, s)) :
        s \in {0, 1, 16} }
    \cup { Packet(SYNC_BYTE, TRUE, TOT_PID, NoAdaptation, TotPayload(0, 40618, 9, 0, 1)),
           Packet(SYNC_BYTE, TRUE, TOT_PID, NoAdaptation, TotPayload(TOT_TABLE_ID, 40587, 9, 0, 1)) }

CaptionPackets ==
    { Packet(SYNC_BYTE, TRUE, 512, NoAdaptation, CaptionPayload(us)) : us \in DataUnitLoops }
    \cup { Packet(SYNC_BYTE, FALSE, 512, NoAdaptation, CaptionPayload(<<DataUnit(STATEMENT_BODY, Dummy)>>)),
           Packet(SYNC_BYTE, TRUE, 513, NoAdaptation, CaptionPayload(<<DataUnit(STATEMENT_BODY, Dummy)>>)) }

(* packets whose first byte is not 0x47: a caption, a PAT, a PCR, a TOT *)
BadSyncPackets ==
    { Packet(0, TRUE, 512, NoAdaptation, CaptionPayload(<<DataUnit(STATEMENT_BODY, Dummy)>>)),
      Packet(0, TRUE, PAT_PID, NoAdaptation, PatPayload(PAT_TABLE_ID, <<Program(1, 256)>>)),
      Packet(72, FALSE, 257, PcrField(TRUE, <<0, 1, 0, 0, 0, 0>>), NoPayload),
      Packet(72, TRUE, TOT_PID, NoAdaptation, TotPayload(TOT_TABLE_ID, 40618, 9, 0, 1)) }

-----------------------------------------------------------------------------
(* Output *)

(* printPrelude: the six header lines, as one item of stdout *)
Prelude == [kind |-> "prelude", start |-> 0, end |-> 0, text |-> <<>>]

(* the Dialogue line of dumpCaption; start and end are prevTimeCenti and
   curTimeCenti, from which the printed clock fields are derived *)
Dialogue(start, end, text) ==
    [kind |-> "Dialogue", start |-> start, end |-> end, text |-> text]

FoundPids(pids) ==
    [kind |-> "Found pids", pids |-> pids, captionPid |-> -1, pcrPid |-> -1]

FoundCaption(caption, pcr) ==
    [kind |-> "caption pid", pids |-> {}, captionPid |-> caption, pcrPid |-> pcr]

-----------------------------------------------------------------------------
(* analyzePacket *)

(* a variant of clockAfter that takes the PCR of any PID *)
clockAfterAnyPid(packet) ==
    IF /\ packet.adaptation.present
       /\ packet.adaptation.pcr_flag
    THEN extractPcr(packet.adaptation.pcr)
    ELSE currentTimestamp

(* the adaptation field: a PCR on the PCR PID overwrites the clock *)
clockAfter(packet) ==
    IF /\ packet.adaptation.present
       /\ packet.adaptation.pcr_flag
       /\ packet.pid = pcrPid
    THEN extractPcr(packet.adaptation.pcr)
    ELSE currentTimestamp

(* a variant of analyzePat that decodes every PAT anew *)
analyzePatAlways(packet) ==
    /\ pmtPids' = extractPmtPids(packet.payload)
    /\ stderr' = Append(stderr, FoundPids(pmtPids'))
    /\ pc' = "read"
    /\ UNCHANGED <<pcrPid, captionPid, clockOffset, previousSubtitle, previousIsBlank,
                   previousTimestamp, preludePrinted, units, shown, stdout>>

(* pid == 0: the PAT *)
analyzePat(packet) ==
    /\ IF Cardinality(pmtPids) = 0
       THEN /\ pmtPids' = extractPmtPids(packet.payload)
            /\ stderr' = Append(stderr, FoundPids(pmtPids'))
       ELSE UNCHANGED <<pmtPids, stderr>>
    /\ pc' = "read"
    /\ UNCHANGED <<pcrPid, captionPid, clockOffset, previousSubtitle, previousIsBlank,
                   previousTimestamp, preludePrinted, units, shown, stdout>>

(* a variant of analyzePmt that resolves the PIDs again after they are found *)
analyzePmtAlways(packet) ==
    /\ IF /\ packet.payload_unit_start_indicator
          /\ extractCaptionPid(packet.payload) # -1
       THEN /\ stderr' = Append(stderr, FoundCaption(extractCaptionPid(packet.payload),
                                                     extractPcrPid(packet.payload)))
            /\ pcrPid' = extractPcrPid(packet.payload)
            /\ captionPid' = extractCaptionPid(packet.payload)
       ELSE UNCHANGED <<pcrPid, captionPid, stderr>>
    /\ pc' = "read"
    /\ UNCHANGED <<pmtPids, clockOffset, previousSubtitle, previousIsBlank,
                   previousTimestamp, preludePrinted, units, shown, stdout>>

(* a variant of analyzePmt that records the PCR PID of a PMT section whether
   or not a caption PID is found in it *)
analyzePmtPcrFirst(packet) ==
    /\ IF captionPid = -1 /\ packet.payload_unit_start_indicator
       THEN /\ pcrPid' = extractPcrPid(packet.payload)
            /\ IF extractCaptionPid(packet.payload) # -1
               THEN /\ stderr' = Append(stderr,
                                        FoundCaption(extractCaptionPid(packet.payload),
                                                     extractPcrPid(packet.payload)))
                    /\ captionPid' = extractCaptionPid(packet.payload)
               ELSE UNCHANGED <<captionPid, stderr>>
       ELSE UNCHANGED <<pcrPid, captionPid, stderr>>
    /\ pc' = "read"
    /\ UNCHANGED <<pmtPids, clockOffset, previousSubtitle, previousIsBlank,
                   previousTimestamp, preludePrinted, units, shown, stdout>>

(* state.pmtPids[pid]: the PMT section *)
analyzePmt(packet) ==
    /\ IF /\ captionPid = -1
          /\ packet.payload_unit_start_indicator
          /\ extractCaptionPid(packet.payload) # -1
       THEN /\ stderr' = Append(stderr, FoundCaption(extractCaptionPid(packet.payload),
                                                     extractPcrPid(packet.payload)))
            /\ pcrPid' = extractPcrPid(packet.payload)
            /\ captionPid' = extractCaptionPid(packet.payload)
       ELSE UNCHANGED <<pcrPid, captionPid, stderr>>
    /\ pc' = "read"
    /\ UNCHANGED <<pmtPids, clockOffset, previousSubtitle, previousIsBlank,
                   previousTimestamp, preludePrinted, units, shown, stdout>>

(* a variant of analyzeTot that sets the offset only while it is 0 *)
analyzeTotOnce(packet) ==
    /\ IF ~jstTimeParses(packet.payload)
       THEN /\ pc' = "panic"
            /\ UNCHANGED clockOffset
       ELSE /\ pc' = "read"
            /\ IF extractJstTime(packet.payload) # 0 /\ clockOffset = 0
               THEN clockOffset' = extractJstTime(packet.payload) * 100
                                     - centitime(clockAfter(packet))
               ELSE UNCHANGED clockOffset
    /\ UNCHANGED <<pmtPids, pcrPid, captionPid, previousSubtitle, previousIsBlank,
                   previousTimestamp, preludePrinted, units, shown, stdout, stderr>>

(* pid == 0x0014: the Time Offset Table *)
analyzeTot(packet) ==
    /\ IF ~jstTimeParses(packet.payload)
       THEN /\ pc' = "panic"
            /\ UNCHANGED clockOffset
       ELSE /\ pc' = "read"
            /\ IF extractJstTime(packet.payload) # 0
               THEN clockOffset' = extractJstTime(packet.payload) * 100
                                     - centitime(clockAfter(packet))
               ELSE UNCHANGED clockOffset
    /\ UNCHANGED <<pmtPids, pcrPid, captionPid, previousSubtitle, previousIsBlank,
                   previousTimestamp, preludePrinted, units, shown, stdout, stderr>>

(* a variant of analyzeCaption that does not look at
   payload_unit_start_indicator *)
analyzeCaptionAnyStart(packet) ==
    /\ IF packet.payload.units # <<>>
       THEN /\ pc' = "dumpCaption"
            /\ units' = packet.payload.units
       ELSE /\ pc' = "read"
            /\ UNCHANGED units
    /\ UNCHANGED <<pmtPids, pcrPid, captionPid, clockOffset, previousSubtitle,
                   previousIsBlank, previousTimestamp, preludePrinted, shown,
                   stdout, stderr>>

(* pid == state.captionPid: dumpCaption enters its data unit loop *)
analyzeCaption(packet) ==
    /\ IF packet.payload_unit_start_indicator /\ packet.payload.units # <<>>
       THEN /\ pc' = "dumpCaption"
            /\ units' = packet.payload.units
       ELSE /\ pc' = "read"
            /\ UNCHANGED units
    /\ UNCHANGED <<pmtPids, pcrPid, captionPid, clockOffset, previousSubtitle,
                   previousIsBlank, previousTimestamp, preludePrinted, shown,
                   stdout, stderr>>

analyzeNothing ==
    /\ pc' = "read"
    /\ UNCHANGED <<pmtPids, pcrPid, captionPid, clockOffset, previousSubtitle,
                   previousIsBlank, previousTimestamp, preludePrinted, units, shown,
                   stdout, stderr>>

(* a variant of assertSyncByte that lets every packet pass *)
assertNothing(packet) == TRUE

(* assertSyncByte: the packet passes (no panic) *)
assertSyncByte(packet) == packet.sync_byte = SYNC_BYTE

analyzePacket(packet) ==
    /\ pc = "read"
    /\ buf' = packet
    /\ nread' = nread + 1
    /\ UNCHANGED fin
    /\ IF ~assertSyncByte(packet)
       THEN /\ pc' = "panic"
            /\ UNCHANGED <<state, units, shown, stdout, stderr>>
       ELSE /\ currentTimestamp' = clockAfter(packet)
            /\ IF ~packet.payload.present THEN analyzeNothing
               ELSE IF packet.pid = PAT_PID THEN analyzePat(packet)
               ELSE IF packet.pid \in pmtPids THEN analyzePmt(packet)
               ELSE IF packet.pid = TOT_PID THEN analyzeTot(packet)
               ELSE IF packet.pid = captionPid THEN analyzeCaption(packet)
               ELSE analyzeNothing

-----------------------------------------------------------------------------
(* dumpCaption: one turn of the data unit loop *)

(* a variant of printsDialogue without the blank test *)
printsDialogueAnyText == Len(previousSubtitle) # 0

(* a variant of printsDialogue that looks at the blank flag alone *)
printsDialogueUnlessFlag == Len(previousSubtitle) # 0 /\ ~previousIsBlank

(* line 254: the pending caption is printed *)
printsDialogue ==
    Len(previousSubtitle) # 0 /\ ~(isBlank(previousSubtitle) /\ previousIsBlank)

(* a variant of prevTimeCenti without the clock offset *)
prevTimeCentiNoOffset == centitime(previousTimestamp)

prevTimeCenti == centitime(previousTimestamp) + clockOffset

(* a variant of curTimeCenti that takes the clock of the pending caption *)
curTimeCentiOfPending == centitime(previousTimestamp) + clockOffset

(* a variant of curTimeCenti without the clock offset *)
curTimeCentiNoOffset == centitime(currentTimestamp)

curTimeCenti == centitime(currentTimestamp) + clockOffset

(* a variant of printed that prints the header before every line *)
printedWithPrelude ==
    <<Prelude, Dialogue(prevTimeCenti, curTimeCenti, previousSubtitle)>>

(* lines 263-270 *)
printed ==
    (IF preludePrinted THEN <<>> ELSE <<Prelude>>)
        \o <<Dialogue(prevTimeCenti, curTimeCenti, previousSubtitle)>>

(* a variant of isStatementBody that takes every data unit *)
isAnyDataUnit(q) == TRUE

(* data_unit_parameter == 0x20 *)
isStatementBody(q) == q.data_unit_parameter = STATEMENT_BODY

(* one turn of the data unit loop of dumpCaption *)
dumpDataUnit ==
    /\ pc = "dumpCaption"
    /\ units # <<>>
    /\ IF isStatementBody(Head(units))
       THEN /\ IF printsDialogue
               THEN /\ stdout' = stdout \o printed
                    /\ preludePrinted' = TRUE
               ELSE UNCHANGED <<stdout, preludePrinted>>
            /\ previousIsBlank' = isBlank(previousSubtitle)
            /\ previousSubtitle' = decodeCprofile(Head(units))
            /\ previousTimestamp' = currentTimestamp
            /\ shown' = shown + 1
       ELSE UNCHANGED <<stdout, preludePrinted, previousIsBlank, previousSubtitle,
                        previousTimestamp, shown>>
    /\ units' = Tail(units)
    /\ pc' = IF Tail(units) = <<>> THEN "read" ELSE "dumpCaption"
    /\ UNCHANGED <<pmtPids, pcrPid, captionPid, currentTimestamp, clockOffset,
                   buf, nread, fin, stderr>>

-----------------------------------------------------------------------------
(* main *)

Init ==
    /\ pmtPids = {}
    /\ pcrPid = -1
    /\ captionPid = -1
    /\ currentTimestamp = 0
    /\ clockOffset = 0
    /\ previousSubtitle = <<>>
    /\ previousIsBlank = FALSE
    /\ previousTimestamp = 0
    /\ preludePrinted = FALSE
    /\ buf = ZeroPacket
    /\ nread = 0
    /\ fin = <<>>
    /\ pc = "read"
    /\ units = <<>>
    /\ shown = 0
    /\ stdout = <<>>
    /\ stderr = <<>>

(* fin.Read returns a packet; the file is left open *)
ReadPat == nread < MaxPackets /\ \E packet \in PatPackets : analyzePacket(packet)

ReadPmt == nread < MaxPackets /\ \E packet \in PmtPackets : analyzePacket(packet)

ReadPcr == nread < MaxPackets /\ \E packet \in PcrPackets : analyzePacket(packet)

ReadTot == nread < MaxPackets /\ \E packet \in TotPackets : analyzePacket(packet)

ReadCaption == nread < MaxPackets /\ \E packet \in CaptionPackets : analyzePacket(packet)

ReadBadSync == nread < MaxPackets /\ \E packet \in BadSyncPackets : analyzePacket(packet)

(* a variant of Eof that prints the pending caption at the end of input *)
EofFlush ==
    /\ pc = "read"
    /\ pc' = "done"
    /\ stdout' = IF Len(previousSubtitle) # 0
                 THEN stdout \o <<Dialogue(prevTimeCenti, curTimeCenti, previousSubtitle)>>
                 ELSE stdout
    /\ UNCHANGED <<state, buf, nread, fin, units, shown, stderr>>

(* fin.Read returns n == 0: the loop ends and main returns *)
Eof ==
    /\ pc = "read"
    /\ pc' = "done"
    /\ UNCHANGED <<state, buf, nread, fin, units, shown, stdout, stderr>>

Next ==
    \/ ReadPat
    \/ ReadPmt
    \/ ReadPcr
    \/ ReadTot
    \/ ReadCaption
    \/ ReadBadSync
    \/ dumpDataUnit
    \/ Eof

Spec == Init /\ [][Next]_vars

-----------------------------------------------------------------------------
(* main over a given input file *)

PatOf(pid) ==
    Packet(SYNC_BYTE, TRUE, PAT_PID, NoAdaptation, PatPayload(PAT_TABLE_ID, <<Program(1, pid)>>))

PmtOf(pid, pcr, caption) ==
    Packet(SYNC_BYTE, TRUE, pid, NoAdaptation,
           PmtPayload(PMT_TABLE_ID, TRUE, pcr, <<Stream(STREAM_TYPE_PES, caption, 82, 135)>>))

PcrOf(pid, bytes) == Packet(SYNC_BYTE, FALSE, pid, PcrField(TRUE, bytes), NoPayload)

TotOf(id, second) ==
    Packet(SYNC_BYTE, TRUE, TOT_PID, NoAdaptation, TotPayload(id, 40618, 9, 0, second))

CaptionOf(pid, text) ==
    Packet(SYNC_BYTE, TRUE, pid, NoAdaptation, CaptionPayload(<<DataUnit(STATEMENT_BODY, text)>>))

(* PAT, PMT, PCR V1, caption, PCR V2, caption *)
FilesE2E ==
    { <<PatOf(256), PmtOf(256, 257, 512), PcrOf(257, v1), CaptionOf(512, x1),
        PcrOf(257, v2), CaptionOf(512, x2)>> :
        v1 \in PcrBytes, v2 \in PcrBytes, x1 \in CaptionTexts, x2 \in CaptionTexts }

(* PAT, PMT, PCR V0, TOT, PCR V1, caption, TOT, PCR V2, caption *)
FilesTot ==
    { <<PatOf(256), PmtOf(256, 257, 512), PcrOf(257, v[1]), TotOf(t[1], t[2]),
        PcrOf(257, v[2]), CaptionOf(512, Dummy), TotOf(t[3], t[4]),
        PcrOf(257, v[3]), CaptionOf(512, Dummy)>> :
        v \in PcrBytes \X PcrBytes \X PcrBytes,
        t \in {TOT_TABLE_ID} \X {0, 1, 16} \X {TOT_TABLE_ID, 0} \X {1, 16} }

Files == FilesE2E \cup FilesTot

InitFile ==
    /\ pmtPids = {}
    /\ pcrPid = -1
    /\ captionPid = -1
    /\ currentTimestamp = 0
    /\ clockOffset = 0
    /\ previousSubtitle = <<>>
    /\ previousIsBlank = FALSE
    /\ previousTimestamp = 0
    /\ preludePrinted = FALSE
    /\ buf = ZeroPacket
    /\ nread = 0
    /\ fin \in Files
    /\ pc = "read"
    /\ units = <<>>
    /\ shown = 0
    /\ stdout = <<>>
    /\ stderr = <<>>

ReadFile == nread < Len(fin) /\ analyzePacket(fin[nread + 1])

EofFile == nread = Len(fin) /\ Eof

NextFile ==
    \/ ReadFile
    \/ dumpDataUnit
    \/ EofFile

SpecFile == InitFile /\ [][NextFile]_vars

-----------------------------------------------------------------------------
(* Properties *)

(* str consists of spaces only (the empty string does) *)
AllSpaces(str) == \A i \in DOMAIN str : str[i] = 32

(* the next step visits a data unit with parameter 0x20 *)
DisplayableTurn ==
    /\ pc = "dumpCaption"
    /\ units # <<>>
    /\ Head(units).data_unit_parameter = STATEMENT_BODY

IsDialogue(line) == line.kind = "Dialogue"

Dialogues(out) == SelectSeq(out, IsDialogue)

Preludes(out) == SelectSeq(out, LAMBDA line : line.kind = "prelude")

Last(seq) == seq[Len(seq)]

(* the step prints exactly one Dialogue line, which closes the pending caption
   over [pending start, current clock] under the clock offset *)
ClosesPending ==
    /\ Len(Dialogues(stdout')) = Len(Dialogues(stdout)) + 1
    /\ Last(stdout') = Dialogue(centitime(previousTimestamp) + clockOffset,
                                centitime(currentTimestamp) + clockOffset,
                                previousSubtitle)

(* C1, as stated: a data unit with parameter 0x20 and text x prints a Dialogue
   line if and only if a caption is pending, its text is not empty, and x and
   the pending text are not both all spaces. *)
C1_AsStated ==
    [][DisplayableTurn =>
         ((stdout' # stdout) <=>
            /\ shown > 0
            /\ Len(previousSubtitle) # 0
            /\ ~(AllSpaces(decodeCprofile(Head(units))) /\ AllSpaces(previousSubtitle)))]_vars

(* C1, amended: a data unit with parameter 0x20 prints a Dialogue line if and
   only if the pending text is not empty and it is not the case that the
   pending text is all spaces while the blank flag is set (the text pending
   before it was all spaces, or there was none); the text x of the arriving
   unit plays no part.  The line carries the pending text over
   [pending start, current clock]. *)
C1_BlankSuppression ==
    [][DisplayableTurn =>
         /\ (stdout' # stdout) <=>
               /\ shown > 0
               /\ Len(previousSubtitle) # 0
               /\ ~(AllSpaces(previousSubtitle) /\ previousIsBlank)
         /\ (stdout' # stdout) => ClosesPending]_vars

(* C1 witness: a blank caption arrived while a blank caption that followed
   "dummy" was pending, and the pending blank caption was printed *)
C1_Witness ==
    /\ Len(stdout) >= 3
    /\ Last(stdout).text = <<SPACE>>
    /\ previousSubtitle = <<SPACE>>
    /\ previousIsBlank
    /\ Last(stdout).end = centitime(previousTimestamp) + clockOffset

(* C2: a data unit with parameter 0x20 that arrives while the pending text is
   neither empty nor all spaces prints exactly one Dialogue line, with the
   pending text, the pending start and the current clock as end, whatever the
   arriving text is. *)
C2_NonBlankPendingIsClosed ==
    [][(DisplayableTurn /\ Len(previousSubtitle) # 0 /\ ~AllSpaces(previousSubtitle))
         => ClosesPending]_vars

(* C2 witness: "dummy" was pending, a blank caption arrived and closed it *)
C2_Witness ==
    /\ shown >= 2
    /\ stdout # <<>>
    /\ Last(stdout).text = Dummy
    /\ previousSubtitle = <<SPACE>>
    /\ ~previousIsBlank
    /\ Last(stdout).end = centitime(previousTimestamp) + clockOffset

(* C3, as stated: once a data unit with parameter 0x20 has been processed, the
   blank flag tells whether the pending text is all spaces. *)
C3_AsStated == shown > 0 => (previousIsBlank <=> AllSpaces(previousSubtitle))

(* C3, amended: a data unit with parameter 0x20 and text x, processed at clock
   T, leaves the pending text x and the pending start T, and the blank flag
   tells whether the text that was pending before x was all spaces (the empty
   text of the start counts as all spaces). *)
C3_PendingEvent ==
    [][DisplayableTurn =>
         /\ previousSubtitle' = decodeCprofile(Head(units))
         /\ previousTimestamp' = currentTimestamp
         /\ previousIsBlank' = AllSpaces(previousSubtitle)]_vars

(* C3 witness: "dummy" is pending after a blank caption: the flag is set *)
C3_Witness ==
    /\ shown >= 2
    /\ previousSubtitle = Dummy
    /\ previousIsBlank
    /\ pc = "read"

(* the step reads a packet that analyzePacket hands to the Time Offset Table
   branch and that decodes to a wall time other than 0 *)
TotStep ==
    /\ pc = "read"
    /\ nread' = nread + 1
    /\ buf'.sync_byte = SYNC_BYTE
    /\ buf'.payload.present
    /\ buf'.pid = TOT_PID
    /\ buf'.pid # PAT_PID
    /\ buf'.pid \notin pmtPids
    /\ jstTimeParses(buf'.payload)
    /\ extractJstTime(buf'.payload) # 0

(* C4, as stated: once the clock offset has been set (it is not 0), no later
   packet changes it. *)
C4_AsStated == [][clockOffset # 0 => clockOffset' = clockOffset]_vars

(* C4, amended: the clock offset is set by every time-offset-table packet that
   decodes to a wall time t other than 0, the first and the later ones alike,
   to t*100 minus the centitime of the clock at that packet; no other step
   changes it. *)
C4_OffsetSetByEveryTot ==
    [][IF TotStep
       THEN clockOffset' = extractJstTime(buf'.payload) * 100 - centitime(currentTimestamp')
       ELSE clockOffset' = clockOffset]_vars

(* C4 witness: a line was printed under an offset other than 0, and a later
   time offset table has replaced that offset *)
C4_Witness ==
    /\ stdout # <<>>
    /\ buf \in TotPackets
    /\ extractJstTime(buf.payload) # 0
    /\ clockOffset = extractJstTime(buf.payload) * 100 - centitime(currentTimestamp)
    /\ Last(stdout).end - centitime(previousTimestamp) # 0
    /\ Last(stdout).end - centitime(previousTimestamp) # clockOffset

(* C6: once the program-map PID set is not empty, no step changes it. *)
C6_PmtPidsFixed == [][pmtPids # {} => pmtPids' = pmtPids]_vars

(* C6 witness: a well-formed PAT naming another PID set was read after the set
   had been recorded *)
C6_Witness ==
    /\ pmtPids # {}
    /\ pc = "read"
    /\ buf.sync_byte = SYNC_BYTE
    /\ buf.pid = PAT_PID
    /\ buf.payload.present
    /\ extractPmtPids(buf.payload) # {}
    /\ extractPmtPids(buf.payload) # pmtPids

(* C7: once the caption PID is resolved, no step changes captionPid or pcrPid. *)
C7_CaptionPidFixed ==
    [][captionPid # -1 => (captionPid' = captionPid /\ pcrPid' = pcrPid)]_vars

(* C7 witness: a well-formed PMT naming another caption PID and another PCR
   PID was read on a program-map PID after the resolution *)
C7_Witness ==
    /\ captionPid # -1
    /\ pc = "read"
    /\ buf.sync_byte = SYNC_BYTE
    /\ buf.payload.present
    /\ buf.payload_unit_start_indicator
    /\ buf.pid \in pmtPids
    /\ extractCaptionPid(buf.payload) \notin {-1, captionPid}
    /\ extractPcrPid(buf.payload) # pcrPid

(* C9: end of input prints nothing, so the pending caption is dropped; a
   Dialogue line is printed only by a data unit with parameter 0x20 that
   replaces a pending caption, and the lines printed number at most the data
   units with parameter 0x20 less one (none while there was no such unit). *)
C9_LastCaptionDropped ==
    [][/\ pc' = "done" => stdout' = stdout
       /\ stdout' # stdout => (DisplayableTurn /\ shown > 0)
       /\ Len(Dialogues(stdout')) <= (IF shown' = 0 THEN 0 ELSE shown' - 1)]_vars

(* C9 witness: the input ended with "dummy" pending after an earlier caption
   was printed *)
C9_Witness ==
    /\ pc = "done"
    /\ shown >= 2
    /\ previousSubtitle = Dummy
    /\ Len(Dialogues(stdout)) = shown - 1

(* C10: the header is printed at most once, before the first Dialogue line,
   and it is printed if and only if a Dialogue line is. *)
C10_HeaderOnce ==
    /\ Len(Preludes(stdout)) <= 1
    /\ Len(Preludes(stdout)) = 1 <=> Len(Dialogues(stdout)) >= 1
    /\ stdout # <<>> => stdout[1] = Prelude
    /\ Len(Dialogues(stdout)) = 0 => stdout = <<>>

(* C10 witness: two Dialogue lines were printed *)
C10_Witness == Len(Dialogues(stdout)) >= 2 /\ preludePrinted

(* the clock and wall time fields of the packets of a file *)
PcrAt(i) == extractPcr(fin[i].adaptation.pcr)

JstAt(i) == extractJstTime(fin[i].payload)

TextAt(i) == decodeCprofile(fin[i].payload.units[1])

(* C5, as stated: with a time offset table decoded as T0 (not 0) at clock V0
   (packets 4 and 3 of a file of FilesTot), the captions that arrive later at
   clocks V1 and V2 (packets 6 and 9) are rendered, as the start and the end of
   the line, at T0*100 + centitime(V) - centitime(V0). *)
C5_AsStated ==
    (pc = "done" /\ fin \in FilesTot /\ JstAt(4) # 0) =>
        Dialogues(stdout) =
            <<Dialogue(JstAt(4) * 100 + centitime(PcrAt(5)) - centitime(PcrAt(3)),
                       JstAt(4) * 100 + centitime(PcrAt(8)) - centitime(PcrAt(3)),
                       Dummy)>>

(* C5, amended: the start and the end of a line are rendered at
   T0*100 + centitime(V) - centitime(V0) for the time offset table (T0 at clock
   V0) that was the last one with T0 other than 0 before the line is printed,
   not for any earlier one; with no such table the offset is 0.  In a file of
   FilesTot the second table (packet 7) arrives at the clock of packet 5. *)
C5_OffsetOfLastTot ==
    (pc = "done" /\ fin \in FilesTot) =>
        LET offset == IF JstAt(7) # 0 THEN JstAt(7) * 100 - centitime(PcrAt(5))
                      ELSE IF JstAt(4) # 0 THEN JstAt(4) * 100 - centitime(PcrAt(3))
                      ELSE 0
        IN  Dialogues(stdout) =
                <<Dialogue(centitime(PcrAt(5)) + offset,
                           centitime(PcrAt(8)) + offset,
                           Dummy)>>

(* C5 witness: a file with two time offset tables of different offsets, and
   different clocks at the two captions, was read to its end *)
C5_Witness ==
    /\ pc = "done"
    /\ fin \in FilesTot
    /\ JstAt(4) # 0
    /\ JstAt(7) # 0
    /\ JstAt(7) * 100 - centitime(PcrAt(5)) # JstAt(4) * 100 - centitime(PcrAt(3))
    /\ centitime(PcrAt(5)) # centitime(PcrAt(8))
    /\ Len(stdout) = 2

(* C8, as stated: a file of FilesE2E (PAT, PMT, PCR V1, caption, PCR V2,
   caption) prints the header and exactly one Dialogue line, from V1 to V2 with
   the text of the first caption, and leaves the second caption pending. *)
C8_AsStated ==
    (pc = "done" /\ fin \in FilesE2E) =>
        /\ stdout = <<Prelude,
                      Dialogue(centitime(PcrAt(3)), centitime(PcrAt(5)), TextAt(4))>>
        /\ previousSubtitle = TextAt(6)
        /\ previousTimestamp = PcrAt(5)

(* C8, amended: the same, provided the text of the first caption is neither
   empty nor all spaces; when it is, nothing is printed.  The second caption
   is left pending in both cases. *)
C8_EndToEnd ==
    (pc = "done" /\ fin \in FilesE2E) =>
        /\ IF Len(TextAt(4)) # 0 /\ ~AllSpaces(TextAt(4))
           THEN stdout = <<Prelude,
                           Dialogue(centitime(PcrAt(3)), centitime(PcrAt(5)), TextAt(4))>>
           ELSE stdout = <<>>
        /\ previousSubtitle = TextAt(6)
        /\ previousTimestamp = PcrAt(5)

(* C8 witness: such a file, with V1 and V2 of different centitime, was read to
   its end and one line was printed *)
C8_Witness ==
    /\ pc = "done"
    /\ fin \in FilesE2E
    /\ centitime(PcrAt(3)) # centitime(PcrAt(5))
    /\ Len(stdout) = 2
    /\ previousSubtitle = TextAt(6)

(* C11: a packet whose first byte is not 0x47 makes analyzePacket panic: no
   field of the analyzer state changes, nothing is printed, and no step
   follows the panic. *)
C11_BadSyncIsFatal ==
    [][/\ pc # "panic"
       /\ (nread' = nread + 1 /\ buf'.sync_byte # 71) =>
             /\ pc' = "panic"
             /\ state' = state
             /\ stdout' = stdout
             /\ stderr' = stderr
             /\ units' = units]_vars

(* C11 witness: the panic came from a PCR packet on the PCR PID whose value
   differs from the clock, after a caption was left pending *)
C11_Witness ==
    /\ pc = "panic"
    /\ buf.sync_byte # 71
    /\ buf.adaptation.pcr_flag
    /\ buf.pid = pcrPid
    /\ extractPcr(buf.adaptation.pcr) # currentTimestamp
    /\ Len(previousSubtitle) # 0

FoundPidsLines(err) == SelectSeq(err, LAMBDA line : line.kind = "Found pids")

FoundCaptionLines(err) == SelectSeq(err, LAMBDA line : line.kind = "caption pid")

(* C12 as stated: the PMT PID set line is written at most once and the
   caption/PCR PID line is written at most once *)
C12_AsStated ==
    /\ Len(FoundPidsLines(stderr)) <= 1
    /\ Len(FoundCaptionLines(stderr)) <= 1

(* C12: the caption/PCR PID line is written at most once; the PMT PID set
   line is written once for every PID-0 payload that is processed while the
   set is still empty, so every such line but the last reports an empty set,
   and a line that reports a non-empty set is the last one and reports the
   set that stays recorded. *)
C12_DiagnosticLines ==
    LET found == FoundPidsLines(stderr)
    IN  /\ Len(FoundCaptionLines(stderr)) <= 1
        /\ \A i \in 1..Len(found) : i < Len(found) => found[i].pids = {}
        /\ (pmtPids # {}) <=> (Len(found) > 0 /\ Last(found).pids # {})
        /\ pmtPids # {} => Last(found).pids = pmtPids

(* C12 witness: two PMT PID set lines were written, the second for a
   non-empty set, and the caption/PCR PID line was written *)
C12_Witness ==
    /\ Len(FoundPidsLines(stderr)) = 2
    /\ pmtPids # {}
    /\ Len(FoundCaptionLines(stderr)) = 1

(* the step reads one more packet, whose sync byte is 0x47 *)
ReadsPacket ==
    /\ pc = "read"
    /\ nread' = nread + 1
    /\ buf'.sync_byte = 71

(* the packet read is routed to a table parser and its payload opens with
   another table id than that parser expects *)
WrongTableMarker ==
    /\ ReadsPacket
    /\ buf'.payload.present
    /\ \/ buf'.pid = 0 /\ buf'.payload.table_id # 0
       \/ buf'.pid # 0 /\ buf'.pid \in pmtPids /\ buf'.payload.table_id # 2
       \/ buf'.pid = 20 /\ buf'.pid \notin pmtPids /\ buf'.payload.table_id # 115

(* the packet read is a PAT with at least one entry of non-zero program number *)
WellFormedPat ==
    /\ ReadsPacket
    /\ buf'.payload.present
    /\ buf'.pid = 0
    /\ buf'.payload.table_id = 0
    /\ \E i \in 1..Len(buf'.payload.programs) : buf'.payload.programs[i].program_number # 0

(* the packet read opens a fitting PMT section on a PMT PID, with a stream of
   type 0x06 that carries the caption component tag *)
WellFormedPmt ==
    /\ ReadsPacket
    /\ buf'.payload.present
    /\ buf'.pid # 0
    /\ buf'.pid \in pmtPids
    /\ buf'.payload_unit_start_indicator
    /\ buf'.payload.table_id = 2
    /\ buf'.payload.section_fits
    /\ \E i \in 1..Len(buf'.payload.streams) :
          /\ buf'.payload.streams[i].stream_type = 6
          /\ \E j \in 1..Len(buf'.payload.streams[i].descriptors) :
                /\ buf'.payload.streams[i].descriptors[j].descriptor_tag = 82
                /\ buf'.payload.streams[i].descriptors[j].component_tag = 135

(* C13: a table packet whose payload opens with the wrong table id is not
   fatal and leaves the PMT PID set, the caption and PCR PIDs, the clock
   offset, the pending caption and the subtitle output as they were (so an
   empty set stays empty and unset PIDs stay -1); a well-formed PAT read while
   the set is empty, and a well-formed PMT read while the caption PID is
   unset, still resolve. *)
C13_WrongMarkerChangesNothing ==
    [][/\ WrongTableMarker =>
             /\ pc' = "read"
             /\ pmtPids' = pmtPids
             /\ captionPid' = captionPid
             /\ pcrPid' = pcrPid
             /\ clockOffset' = clockOffset
             /\ previousSubtitle' = previousSubtitle
             /\ previousIsBlank' = previousIsBlank
             /\ previousTimestamp' = previousTimestamp
             /\ preludePrinted' = preludePrinted
             /\ stdout' = stdout
       /\ (WellFormedPat /\ pmtPids = {}) =>
             /\ pmtPids' # {}
             /\ pmtPids' = { buf'.payload.programs[i].program_map_PID :
                               i \in { j \in 1..Len(buf'.payload.programs) :
                                         buf'.payload.programs[j].program_number # 0 } }
       /\ (WellFormedPmt /\ captionPid = -1) =>
             /\ captionPid' # -1
             /\ captionPid' \in { buf'.payload.streams[i].elementary_PID :
                                    i \in 1..Len(buf'.payload.streams) }
             /\ pcrPid' = buf'.payload.PCR_PID]_vars

(* C13 witness: a PID-0 payload with a wrong table id was survived (its
   diagnostic line reports an empty set), a later PAT resolved the set, and
   the packet just processed is a wrong-marker payload on a PMT PID that left
   the caption PID unset *)
C13_Witness ==
    /\ pc = "read"
    /\ Len(FoundPidsLines(stderr)) = 2
    /\ FoundPidsLines(stderr)[1].pids = {}
    /\ buf.pid \in pmtPids
    /\ buf.payload.present
    /\ buf.payload_unit_start_indicator
    /\ buf.payload.table_id # 2
    /\ captionPid = -1

(* the packet read carries a PCR in its adaptation field, on the PCR PID *)
PcrOnPcrPid ==
    /\ ReadsPacket
    /\ buf'.adaptation.present
    /\ buf'.adaptation.pcr_flag
    /\ pcrPid # -1
    /\ buf'.pid = pcrPid

(* C14: the presentation clock changes only in a step that reads a packet
   whose adaptation field carries a PCR on the resolved PCR PID, and that step
   overwrites it with the packet's PCR value; every other step, a PCR on
   another PID or before the PCR PID is resolved included, leaves it
   unchanged. *)
C14_ClockFollowsPcrPid ==
    [][IF PcrOnPcrPid
       THEN currentTimestamp' = extractPcr(buf'.adaptation.pcr)
       ELSE currentTimestamp' = currentTimestamp]_vars

(* C14 witness: the clock holds a PCR value and the packet just processed
   carried a different PCR on another PID than the PCR PID *)
C14_Witness ==
    /\ pc = "read"
    /\ buf.sync_byte = 71
    /\ buf.adaptation.present
    /\ buf.adaptation.pcr_flag
    /\ pcrPid # -1
    /\ buf.pid # pcrPid
    /\ currentTimestamp # 0
    /\ extractPcr(buf.adaptation.pcr) # currentTimestamp

(* [ISO] 2.4.2.2: program_clock_reference_base * 300 plus the 9-bit
   program_clock_reference_extension, of the six PCR bytes b[1]..b[6] *)
PcrOfBytes(b) ==
    LET base == b[1] * 33554432 + b[2] * 131072 + b[3] * 512 + b[4] * 2 + (b[5] \div 128)
        extension == (b[5] % 2) * 256 + b[6]
    IN  base * 300 + extension

(* C15 as stated: after a PCR was taken from a packet on the PCR PID, the
   clock is base * 300 + extension, the extension being the full 9-bit value
   (low bit of byte 5 as bit 8, byte 6 as bits 7..0) *)
C15_AsStated ==
    (/\ pc = "read"
     /\ buf.sync_byte = 71
     /\ buf.adaptation.present
     /\ buf.adaptation.pcr_flag
     /\ pcrPid # -1
     /\ buf.pid = pcrPid) =>
        currentTimestamp = PcrOfBytes(buf.adaptation.pcr)

(* C16: data units are taken only from a packet on the caption PID that has
   the payload-unit-start flag set; a packet on the caption PID without the
   flag leaves the pending caption, the header-printed flag and the output
   unchanged and starts no data unit loop. *)
C16_OnlyUnitStartIsDumped ==
    [][/\ (ReadsPacket /\ buf'.pid = captionPid /\ ~buf'.payload_unit_start_indicator) =>
             /\ pc' = "read"
             /\ units' = units
             /\ previousSubtitle' = previousSubtitle
             /\ previousIsBlank' = previousIsBlank
             /\ previousTimestamp' = previousTimestamp
             /\ preludePrinted' = preludePrinted
             /\ stdout' = stdout
             /\ stderr' = stderr
       /\ (pc = "read" /\ pc' = "dumpCaption") =>
             /\ ReadsPacket
             /\ buf'.payload.present
             /\ buf'.pid = captionPid
             /\ buf'.payload_unit_start_indicator
             /\ units' = buf'.payload.units
       /\ (pc = "read" /\ pc' # "dumpCaption") =>
             /\ previousSubtitle' = previousSubtitle
             /\ previousIsBlank' = previousIsBlank
             /\ previousTimestamp' = previousTimestamp
             /\ preludePrinted' = preludePrinted
             /\ stdout' = stdout]_vars

(* C16 witness: a displayable caption is pending, and the packet just
   processed is on the caption PID, carries a displayable data unit and has no
   payload-unit-start flag *)
C16_Witness ==
    /\ pc = "read"
    /\ buf.sync_byte = 71
    /\ captionPid # -1
    /\ buf.pid = captionPid
    /\ buf.payload.present
    /\ ~buf.payload_unit_start_indicator
    /\ Len(buf.payload.units) > 0
    /\ buf.payload.units[1].data_unit_parameter = 32
    /\ Len(previousSubtitle) # 0
    /\ ~AllSpaces(previousSubtitle)

(* C17: a data unit whose parameter is not 0x20 prints no line and leaves the
   pending text, its start time and the blank flag unchanged; the loop goes on
   with the units after it, one by one in their order, a unit of parameter
   0x20 among them becoming the pending caption. *)
C17_OtherUnitsAreSkipped ==
    [][pc = "dumpCaption" =>
          /\ units # <<>>
          /\ units' = Tail(units)
          /\ pc' = IF Len(units) > 1 THEN "dumpCaption" ELSE "read"
          /\ IF Head(units).data_unit_parameter # 32
             THEN /\ stdout' = stdout
                  /\ previousSubtitle' = previousSubtitle
                  /\ previousTimestamp' = previousTimestamp
                  /\ previousIsBlank' = previousIsBlank
                  /\ preludePrinted' = preludePrinted
             ELSE /\ previousSubtitle' = Head(units).text
                  /\ previousTimestamp' = currentTimestamp]_vars

(* C17 witness: the payload just processed holds a unit of another parameter
   followed by a displayable unit; the caption that was pending before it was
   closed by the second unit, which is now pending *)
C17_Witness ==
    /\ pc = "read"
    /\ units = <<>>
    /\ buf.sync_byte = 71
    /\ buf.pid = captionPid
    /\ buf.payload_unit_start_indicator
    /\ Len(buf.payload.units) = 2
    /\ buf.payload.units[1].data_unit_parameter # 32
    /\ buf.payload.units[2].data_unit_parameter = 32
    /\ previousSubtitle = buf.payload.units[2].text
    /\ Len(Dialogues(stdout)) = 1
    /\ shown = 2

(* the step prints one more Dialogue line *)
EmitsLine == Len(Dialogues(stdout')) = Len(Dialogues(stdout)) + 1

(* C18 as stated: in every Dialogue line printed, the end time is not earlier
   than the start time, whatever PCR values were observed *)
C18_AsStated ==
    \A i \in 1..Len(stdout) :
        IsDialogue(stdout[i]) => stdout[i].end >= stdout[i].start

(* C18: the end time of a line is not earlier than its start time exactly
   when the clock at the closing unit, in 10 ms units, is not smaller than the
   clock at the arrival of the pending unit; so it is when the clock has not
   gone back between the two, and a PCR smaller than the one in force at the
   arrival of the pending unit gives a line that ends before it starts. *)
C18_EndOrderFollowsClock ==
    [][EmitsLine =>
          LET line == Last(stdout')
          IN  /\ (line.end >= line.start) <=>
                    (currentTimestamp \div 270000 >= previousTimestamp \div 270000)
              /\ currentTimestamp >= previousTimestamp => line.end >= line.start]_vars

(* C18 witness: a file whose second PCR is smaller than its first was read to
   its end, and the line printed ends before it starts *)
C18_Witness ==
    /\ pc = "done"
    /\ fin \in FilesE2E
    /\ PcrAt(5) < PcrAt(3)
    /\ Len(Dialogues(stdout)) = 1
    /\ Last(stdout).end < Last(stdout).start

(* C19: the start and the end of a line are both rendered under the clock
   offset in force when the line is printed, so the line lasts
   centitime(clock at the closing unit) - centitime(clock at the arrival of
   the pending unit), whatever time offset tables arrived between the two. *)
C19_OneOffsetPerLine ==
    [][EmitsLine =>
          LET line == Last(stdout')
          IN  /\ line.start - previousTimestamp \div 270000 = clockOffset
              /\ line.end - currentTimestamp \div 270000 = clockOffset
              /\ line.end - line.start =
                   currentTimestamp \div 270000 - previousTimestamp \div 270000]_vars

(* C19 witness: in a file read to its end, a time offset table that changed
   the offset arrived between the pending unit (packet 6, clock of packet 5)
   and the closing unit (packet 9, clock of packet 8), and the line printed
   lasts the difference of the two clocks, which is not 0 *)
C19_Witness ==
    /\ pc = "done"
    /\ fin \in FilesTot
    /\ JstAt(7) # 0
    /\ JstAt(7) * 100 - PcrAt(5) \div 270000 # JstAt(4) * 100 - PcrAt(3) \div 270000
    /\ Len(Dialogues(stdout)) = 1
    /\ Last(stdout).end - Last(stdout).start = PcrAt(8) \div 270000 - PcrAt(5) \div 270000
    /\ Last(stdout).end # Last(stdout).start
    /\ Last(stdout).start = clockOffset + PcrAt(5) \div 270000

(* the packet read is on a PMT PID and its payload yields no caption PID: it
   is no fitting PMT section, or none of its streams of type 0x06 carries the
   caption component tag *)
PmtWithoutCaption ==
    /\ ReadsPacket
    /\ buf'.payload.present
    /\ buf'.pid # 0
    /\ buf'.pid \in pmtPids
    /\ ~(/\ buf'.payload.table_id = 2
         /\ buf'.payload.section_fits
         /\ \E i \in 1..Len(buf'.payload.streams) :
               /\ buf'.payload.streams[i].stream_type = 6
               /\ \E j \in 1..Len(buf'.payload.streams[i].descriptors) :
                     /\ buf'.payload.streams[i].descriptors[j].descriptor_tag = 82
                     /\ buf'.payload.streams[i].descriptors[j].component_tag = 135)

(* C20: in every reachable state the caption PID is -1 exactly when the PCR
   PID is -1, and a PMT that yields no caption PID records neither of the two. *)
C20_CaptionAndPcrPidTogether ==
    /\ [](captionPid = -1 <=> pcrPid = -1)
    /\ [][PmtWithoutCaption => (captionPid' = captionPid /\ pcrPid' = pcrPid)]_vars

(* C20 witness: the packet just processed is a fitting PMT section on a PMT
   PID that names a PCR PID but no caption stream, and both PIDs are unset *)
C20_Witness ==
    /\ pc = "read"
    /\ buf.sync_byte = 71
    /\ buf.pid \in pmtPids
    /\ buf.payload.present
    /\ buf.payload_unit_start_indicator
    /\ buf.payload.table_id = 2
    /\ buf.payload.section_fits
    /\ buf.payload.PCR_PID = 257
    /\ captionPid = -1
    /\ pcrPid = -1

=============================================================================
